---------------------------- MODULE Spec2Model ----------------------------
(***************************************************************************)
(* The four-step timesheet form (Setup -> Log Ticket -> Review -> Success) *)
(* of jira-timesheet-ui, as a state machine.                               *)
(*                                                                         *)
(* Text is a sequence of one-character strings.  Hours are integers in     *)
(* hundredths of an hour (0.25 h = 25, 8 h = 800), so the quarter-hour     *)
(* lattice is the multiples of 25.                                         *)
(*                                                                         *)
(* Two specifications share the handlers:                                  *)
(*   Spec     the rendered component: a handler runs only through a        *)
(*            control the JSX renders (and enables) in the current state;  *)
(*   SpecOps  the handlers as operations of the state machine, invoked in  *)
(*            any state, whatever the JSX renders.                         *)
(***************************************************************************)
EXTENDS Integers, Sequences, FiniteSets, TLC

\* ------------------------------------------------------------------ bounds

MaxTickets == 2     \* tickets in the list
MaxClock   == 1     \* values of Date.now() are 0..MaxClock
MaxPending == 2     \* outstanding calls of submitTimesheet
MaxPieces  == 4     \* pieces a date text typed on its own is made of
MaxRawHours == 40   \* how far outside the range a typed hours value lies
MaxTwoStepTickets == 1  \* tickets in the list of the two-step form

\* ------------------------------------------------------- program constants

MaxUsernameLen    == 128
MaxTokenLen       == 256
MaxDescriptionLen == 1000
MaxTicketIdLen    == 128
MinHours          == 25
MaxHours          == 800
QuarterHour       == 25

TypesOfWork == {"Create", "Review", "Study"}

\* -------------------------------------------------------------------- text

Digits == {"0", "1", "2", "3", "4", "5", "6", "7", "8", "9"}

Letters ==
    {"a", "b", "c", "d", "e", "f", "g", "h", "i", "j", "k", "l", "m",
     "n", "o", "p", "q", "r", "s", "t", "u", "v", "w", "x", "y", "z",
     "A", "B", "C", "D", "E", "F", "G", "H", "I", "J", "K", "L", "M",
     "N", "O", "P", "Q", "R", "S", "T", "U", "V", "W", "X", "Y", "Z"}

Spaces == {" ", "\t", "\n"}

AccountChars == Digits \cup Letters \cup {".", "_", "-", "@"}

TicketIdChars == Digits \cup Letters \cup {"-", "_"}

Min2(a, b) == IF a < b THEN a ELSE b

Max2(a, b) == IF a > b THEN a ELSE b

RECURSIVE TrimLeft(_)
TrimLeft(s) ==
    IF s = <<>> THEN <<>>
    ELSE IF Head(s) \in Spaces THEN TrimLeft(Tail(s)) ELSE s

RECURSIVE TrimRight(_)
TrimRight(s) ==
    IF s = <<>> THEN <<>>
    ELSE IF s[Len(s)] \in Spaces THEN TrimRight(SubSeq(s, 1, Len(s) - 1)) ELSE s

Trim(s) == TrimRight(TrimLeft(s))

Truncate(s, n) == SubSeq(s, 1, Min2(Len(s), n))

Restrict(s, allowed) == SelectSeq(s, LAMBDA c : c \in allowed)

\* Runs of whitespace become one space.
RECURSIVE CollapseSpaces(_)
CollapseSpaces(s) ==
    IF Len(s) < 2 THEN (IF s # <<>> /\ s[1] \in Spaces THEN <<" ">> ELSE s)
    ELSE IF s[1] \in Spaces /\ s[2] \in Spaces THEN CollapseSpaces(Tail(s))
    ELSE IF s[1] \in Spaces THEN <<" ">> \o CollapseSpaces(Tail(s))
    ELSE <<s[1]>> \o CollapseSpaces(Tail(s))

\* The segments of s between the occurrences of sep, as String.split does.
RECURSIVE SplitAcc(_, _, _)
SplitAcc(s, sep, cur) ==
    IF s = <<>> THEN <<cur>>
    ELSE IF Head(s) = sep THEN <<cur>> \o SplitAcc(Tail(s), sep, <<>>)
    ELSE SplitAcc(Tail(s), sep, Append(cur, Head(s)))

Split(s, sep) == SplitAcc(s, sep, <<>>)

RECURSIVE Join(_, _)
Join(parts, sep) ==
    IF parts = <<>> THEN <<>>
    ELSE IF Len(parts) = 1 THEN parts[1]
    ELSE parts[1] \o sep \o Join(Tail(parts), sep)

MapTrim(parts) == [i \in 1..Len(parts) |-> Trim(parts[i])]

\* ---------------------------------------------------------------- sanitize

sanitizeAccount(raw) == Truncate(Restrict(Trim(raw), AccountChars), MaxUsernameLen)

sanitizeToken(raw) == Truncate(Trim(raw), MaxTokenLen)

\* What the user may type into the dates input.
RawDates ==
    { <<" ", "1", "/", "A", "u", "g", "/", "2", "5", " ", ",">>,
      <<"1", "/", "A", "u">> }

\* Split on commas, trim the segments, drop the empty ones, join with ", ".
SanitizedDateList(raw) ==
    Join(SelectSeq(MapTrim(Split(raw, ",")), LAMBDA seg : seg # <<>>), <<",", " ">>)

\* The date texts the form can hold, with what SanitizedDateList makes of
\* each, computed once.
DateTexts == {<<>>} \cup RawDates \cup {SanitizedDateList(raw) : raw \in RawDates}

SanitizedDateTexts == [raw \in DateTexts |-> SanitizedDateList(raw)]

sanitizeDates(raw) ==
    IF raw \in DateTexts THEN SanitizedDateTexts[raw] ELSE SanitizedDateList(raw)

sanitizeDescription(raw) == Truncate(CollapseSpaces(Trim(raw)), MaxDescriptionLen)

sanitizeTicketId(raw) == Truncate(Restrict(Trim(raw), TicketIdChars), MaxTicketIdLen)

\* A raw hours input is [num |-> FALSE] when it does not parse as a number and
\* [num |-> TRUE, val |-> v] for the number v/100.
NotANumber == [num |-> FALSE, val |-> 0]

Num(v) == [num |-> TRUE, val |-> v]

RoundToQuarter(v) == ((2 * v + QuarterHour) \div (2 * QuarterHour)) * QuarterHour

sanitizeHours(raw) ==
    IF ~raw.num THEN MinHours
    ELSE RoundToQuarter(Min2(Max2(raw.val, MinHours), MaxHours))

\* d{1,2}/LLL/dd
IsDateToken(t) ==
    \/ /\ Len(t) = 8
       /\ t[1] \in Digits /\ t[2] = "/"
       /\ t[3] \in Letters /\ t[4] \in Letters /\ t[5] \in Letters
       /\ t[6] = "/" /\ t[7] \in Digits /\ t[8] \in Digits
    \/ /\ Len(t) = 9
       /\ t[1] \in Digits /\ t[2] \in Digits /\ t[3] = "/"
       /\ t[4] \in Letters /\ t[5] \in Letters /\ t[6] \in Letters
       /\ t[7] = "/" /\ t[8] \in Digits /\ t[9] \in Digits

\* A non-empty list of date tokens separated by a comma and optional
\* whitespace.
IsDateList(s) ==
    LET segs == Split(s, ",")
    IN  /\ s # <<>>
        /\ IsDateToken(segs[1])
        /\ \A i \in 2..Len(segs) : IsDateToken(TrimLeft(segs[i]))

\* The date texts of the form that are date lists, computed once.
ValidDateTexts == {s \in DateTexts : IsDateList(s)}

isValidDatesList(s) ==
    IF s \in DateTexts THEN s \in ValidDateTexts ELSE IsDateList(s)

\* --------------------------------------------------------------- Zod schemas

\* A ZodError is [zod |-> TRUE, issues |-> <<issue, ...>>]; an issue has the
\* path of the offending value and a message.
Issue(path, message) == [path |-> path, message |-> message]

Prefixed(head, issues) ==
    [i \in 1..Len(issues) |->
        Issue(head \o issues[i].path, issues[i].message)]

MinLenIssues(v, message) ==
    IF Len(v) < 1 THEN <<Issue(<<>>, message)>> ELSE <<>>

MaxLenIssues(v, max, message) ==
    IF Len(v) > max THEN <<Issue(<<>>, message)>> ELSE <<>>

UsernameIssues(v) ==
    MinLenIssues(v, "Username is required")
        \o MaxLenIssues(v, MaxUsernameLen, "Username too long")

TokenIssues(v) ==
    MinLenIssues(v, "Jira Token is required")
        \o MaxLenIssues(v, MaxTokenLen, "Token too long")

Step1SchemaIssues(obj) ==
    Prefixed(<<"username">>, UsernameIssues(obj.username))
        \o Prefixed(<<"token">>, TokenIssues(obj.token))

TypeOfWorkIssues(v) ==
    IF v \in TypesOfWork THEN <<>> ELSE <<Issue(<<>>, "Invalid option")>>

\* TicketSchema, had its timeSpend rule been .gt(0.25).
TimeSpendIssues_ExclusiveMin(v) ==
    (IF v <= MinHours THEN <<Issue(<<>>, "Min 0.25 hour")>> ELSE <<>>)
        \o (IF v > MaxHours THEN <<Issue(<<>>, "Max 8 hours")>> ELSE <<>>)

TimeSpendIssues(v) ==
    (IF v < MinHours THEN <<Issue(<<>>, "Min 0.25 hour")>> ELSE <<>>)
        \o (IF v > MaxHours THEN <<Issue(<<>>, "Max 8 hours")>> ELSE <<>>)

TicketSchemaIssues(t) ==
    Prefixed(<<"typeOfWork">>, TypeOfWorkIssues(t.typeOfWork))
        \o Prefixed(<<"description">>,
                    MinLenIssues(t.description, "Description is required")
                        \o MaxLenIssues(t.description, MaxDescriptionLen, "Too big"))
        \o Prefixed(<<"timeSpend">>, TimeSpendIssues(t.timeSpend))
        \o Prefixed(<<"ticketId">>,
                    MinLenIssues(t.ticketId, "Ticket ID is required")
                        \o MaxLenIssues(t.ticketId, MaxTicketIdLen, "Too big"))

\* DatesSchema, had it no refine.
DatesSchemaIssues_NoRefine(val) ==
    MinLenIssues(val, "Dates are required")

DatesSchemaIssues(val) ==
    MinLenIssues(val, "Dates are required")
        \o (IF isValidDatesList(val) THEN <<>>
            ELSE <<Issue(<<>>, "Dates must be in format: 20/Aug/25, 21/Aug/25, 22/Aug/25")>>)

RECURSIVE TicketArrayIssues(_, _)
TicketArrayIssues(ts, i) ==
    IF i > Len(ts) THEN <<>>
    ELSE Prefixed(<<i - 1>>, TicketSchemaIssues(ts[i])) \o TicketArrayIssues(ts, i + 1)

\* SubmitPayloadSchema, had its tickets array no .min(1).
SubmitPayloadSchemaIssues_NoMinTickets(p) ==
    Prefixed(<<"username">>, UsernameIssues(p.username))
        \o Prefixed(<<"token">>, TokenIssues(p.token))
        \o Prefixed(<<"dates">>, DatesSchemaIssues(p.dates))
        \o Prefixed(<<"tickets">>, TicketArrayIssues(p.tickets, 1))

SubmitPayloadSchemaIssues(p) ==
    Prefixed(<<"username">>, UsernameIssues(p.username))
        \o Prefixed(<<"token">>, TokenIssues(p.token))
        \o Prefixed(<<"dates">>, DatesSchemaIssues(p.dates))
        \o Prefixed(<<"tickets">>,
                    TicketArrayIssues(p.tickets, 1)
                        \o (IF Len(p.tickets) < 1
                            THEN <<Issue(<<>>, "Please add at least one ticket")>>
                            ELSE <<>>))

ZodError(issues) == [zod |-> TRUE, issues |-> issues, message |-> "ZodError: issues"]

\* What submitTimesheet throws.
Error(message) == [zod |-> FALSE, issues |-> <<>>, message |-> message]

\* No default key (undefined).
NoKey == ""

IssueKey(issue, defaultKey) ==
    IF Len(issue.path) > 0 THEN issue.path[1] ELSE defaultKey

\* zodToFieldErrors, had it stopped at the first issue.
zodToFieldErrors_FirstIssueOnly(err, defaultKey) ==
    LET issues == IF err.zod THEN err.issues ELSE <<>>
        keys   == {IssueKey(issues[i], defaultKey) : i \in {1} \cap DOMAIN issues} \ {NoKey}
    IN  [k \in keys |-> issues[1].message]

\* The field errors of an error: for each key the message of its last issue.
zodToFieldErrors(err, defaultKey) ==
    LET issues == IF err.zod THEN err.issues ELSE <<>>
        keyed  == {i \in 1..Len(issues) : IssueKey(issues[i], defaultKey) # NoKey}
        keys   == {IssueKey(issues[i], defaultKey) : i \in keyed}
        lastOf(k) ==
            CHOOSE i \in keyed :
                /\ IssueKey(issues[i], defaultKey) = k
                /\ \A j \in keyed : IssueKey(issues[j], defaultKey) = k => j <= i
    IN  [k \in keys |-> issues[lastOf(k)].message]

\* { ...prev, ...more }
Merged(prev, more) ==
    [k \in DOMAIN prev \cup DOMAIN more |->
        IF k \in DOMAIN more THEN more[k] ELSE prev[k]]

\* prev with the keys deleted
Without(prev, keys) == [k \in DOMAIN prev \ keys |-> prev[k]]

NoErrors == [k \in {} |-> ""]

\* ------------------------------------------------------------------- inputs

\* What the user may type into the account, token and dates inputs.
RawAccounts == { <<" ", "a", "!">> }

RawTokens == { <<"t", "k", " ">> }

RawTicketIds == { <<"P", "-", "1", " ">> }

RawDescriptions == { <<"f", " ", " ", "x">> }

RawHours == { NotANumber }

\* The items of the type-of-work select the user picks.
SelectedTypes == { "Review" }

RejectionMessages == { "Network error" }

\* -------------------------------------------------------------------- state

VARIABLES
    step,           \* 1 = Setup, 2 = Log Ticket, 3 = Review, 4 = Success
    username,
    token,
    dates,
    tickets,        \* sequence of [id, typeOfWork, description, timeSpend, ticketId]
    currentTicket,  \* the draft
    isSubmitting,
    fieldErrors,    \* function from the keys that have an error to its message
    toast,          \* message of the last toast.error, "" before the first
    pending,        \* the arguments of the calls of submitTimesheet not yet
                    \* settled, oldest first
    now,            \* Date.now()
    calls,          \* the arguments of the setIsSubmitting calls of the handler
                    \* that ran last, in the order of the calls
    scen,           \* history: how far the run is the end-to-end scenario, below
                    \* 0 when it is not
    refused,        \* history: the last operation was a Next that broke a rule
    invoked,        \* a function taken on its own: [fn, arg], its name and argument
    outcome,        \* what that function did, NoOutcome before it has run
    twoStep         \* the state of the two-step form (components/Form.tsx)

vars ==
    <<step, username, token, dates, tickets, currentTicket, isSubmitting,
      fieldErrors, toast, pending, now, calls, scen, refused, invoked, outcome,
      twoStep>>

\* No function is taken on its own: the form runs.
NoCall == [fn |-> "", arg |-> <<>>]

NoOutcome == [kind |-> "none"]

DefaultTicket ==
    [id |-> "", typeOfWork |-> "Create", description |-> <<>>,
     timeSpend |-> MinHours, ticketId |-> <<>>]

\* The data the user has entered.
SessionData ==
    [username |-> username, token |-> token, dates |-> dates,
     tickets |-> tickets, currentTicket |-> currentTicket,
     fieldErrors |-> fieldErrors]

\* The field rules, stated on the sanitized values.
TextOk(v, max) == Len(v) >= 1 /\ Len(v) <= max

CredentialsOk ==
    /\ TextOk(sanitizeAccount(username), MaxUsernameLen)
    /\ TextOk(sanitizeToken(token), MaxTokenLen)

DatesOk == isValidDatesList(sanitizeDates(dates))

\* The fields of ticket t that break a rule once sanitized.
OffendingFields(t) ==
    {f \in {"ticketId"} : ~TextOk(sanitizeTicketId(t.ticketId), MaxTicketIdLen)}
        \cup {f \in {"description"} :
                ~TextOk(sanitizeDescription(t.description), MaxDescriptionLen)}
        \cup {f \in {"timeSpend"} :
                LET h == sanitizeHours(Num(t.timeSpend)) IN h < MinHours \/ h > MaxHours}
        \cup {f \in {"typeOfWork"} : t.typeOfWork \notin TypesOfWork}

DraftOk == OffendingFields(currentTicket) = {}

\* The end-to-end scenario, from the defaults: Next with valid credentials
\* (1), Add ticket with a valid draft (2), Review with a valid date list (3),
\* Submit (4), the call resolves (5).  Typing into the inputs of the step at
\* hand and the clock do not leave the scenario; anything else does (-1, or
\* -2 when it is a removeTicket whose id matches no entry).
ScenNext(s, op) ==
    IF op = "tick" THEN s
    ELSE IF s >= 0 /\ op = "removeUnknown" THEN -2
    ELSE IF s = 0 /\ op \in {"changeUsername", "changeToken"} THEN 0
    ELSE IF s = 0 /\ op = "next" /\ CredentialsOk THEN 1
    ELSE IF s = 1 /\ op \in {"changeTicketId", "changeTypeOfWork",
                             "changeTimeSpend", "changeDescription"} THEN 1
    ELSE IF s = 1 /\ op = "addTicket" /\ DraftOk THEN 2
    ELSE IF s = 2 /\ op = "changeDates" THEN 2
    ELSE IF s = 2 /\ op = "review" /\ DatesOk THEN 3
    ELSE IF s = 3 /\ op = "submit" THEN 4
    ELSE IF s = 4 /\ op = "resolved" THEN 5
    ELSE -1

Track(op) ==
    /\ scen' = ScenNext(scen, op)
    /\ refused' = (op = "next" /\ ~CredentialsOk)
    /\ UNCHANGED <<invoked, outcome, twoStep>>

\* The two-step form after construction; null is "".
TwoStepDefaultTicket ==
    [id |-> "", typeOfWork |-> "Create", description |-> <<>>,
     timeSpend |-> 100, ticketId |-> <<>>]

TwoStepInit ==
    [step |-> 1, userId |-> <<>>, jiraToken |-> <<>>, dates |-> <<>>,
     tickets |-> <<>>, currentTicket |-> TwoStepDefaultTicket,
     isSubmitting |-> FALSE, error |-> "", success |-> "",
     showDialog |-> FALSE, dialogTitle |-> "", dialogMessage |-> "",
     pending |-> <<>>]

\* The state of the form after construction.
FormInit ==
    /\ step = 1
    /\ username = <<>>
    /\ token = <<>>
    /\ dates = <<>>
    /\ tickets = <<>>
    /\ currentTicket = DefaultTicket
    /\ isSubmitting = FALSE
    /\ fieldErrors = NoErrors
    /\ toast = ""
    /\ pending = <<>>
    /\ now = 0
    /\ calls = <<>>
    /\ scen = 0
    /\ refused = FALSE

Init ==
    /\ FormInit
    /\ twoStep = TwoStepInit
    /\ invoked = NoCall
    /\ outcome = NoOutcome

\* ----------------------------------------------------------------- handlers

\* The onChange handlers of the inputs: store the sanitized value and drop
\* the field's error.
onChangeUsername(raw) ==
    /\ username' = sanitizeAccount(raw)
    /\ fieldErrors' = Without(fieldErrors, {"username"})
    /\ Track("changeUsername")
    /\ calls' = <<>>
    /\ UNCHANGED <<step, token, dates, tickets, currentTicket, isSubmitting, toast, pending, now>>

onChangeToken(raw) ==
    /\ token' = sanitizeToken(raw)
    /\ fieldErrors' = Without(fieldErrors, {"token"})
    /\ Track("changeToken")
    /\ calls' = <<>>
    /\ UNCHANGED <<step, username, dates, tickets, currentTicket, isSubmitting, toast, pending, now>>

\* The onChange of the dates input, had it stored the text as typed.
onChangeDates_NoSanitize(raw) ==
    /\ dates' = raw
    /\ fieldErrors' = Without(fieldErrors, {"dates"})
    /\ Track("changeDates")
    /\ calls' = <<>>
    /\ UNCHANGED <<step, username, token, tickets, currentTicket, isSubmitting, toast, pending, now>>

onChangeDates(raw) ==
    /\ dates' = sanitizeDates(raw)
    /\ fieldErrors' = Without(fieldErrors, {"dates"})
    /\ Track("changeDates")
    /\ calls' = <<>>
    /\ UNCHANGED <<step, username, token, tickets, currentTicket, isSubmitting, toast, pending, now>>

onChangeTicketId(raw) ==
    /\ currentTicket' = [currentTicket EXCEPT !.ticketId = sanitizeTicketId(raw)]
    /\ fieldErrors' = Without(fieldErrors, {"ticketId"})
    /\ Track("changeTicketId")
    /\ calls' = <<>>
    /\ UNCHANGED <<step, username, token, dates, tickets, isSubmitting, toast, pending, now>>

onChangeTypeOfWork(v) ==
    /\ currentTicket' = [currentTicket EXCEPT !.typeOfWork = v]
    /\ fieldErrors' = Without(fieldErrors, {"typeOfWork"})
    /\ Track("changeTypeOfWork")
    /\ calls' = <<>>
    /\ UNCHANGED <<step, username, token, dates, tickets, isSubmitting, toast, pending, now>>

\* The onChange of the hours input, had it stored Number(value) (0 for a
\* text that is no number).
onChangeTimeSpend_NoSanitize(raw) ==
    /\ currentTicket' = [currentTicket EXCEPT !.timeSpend = raw.val]
    /\ fieldErrors' = Without(fieldErrors, {"timeSpend"})
    /\ Track("changeTimeSpend")
    /\ calls' = <<>>
    /\ UNCHANGED <<step, username, token, dates, tickets, isSubmitting, toast, pending, now>>

onChangeTimeSpend(raw) ==
    /\ currentTicket' = [currentTicket EXCEPT !.timeSpend = sanitizeHours(raw)]
    /\ fieldErrors' = Without(fieldErrors, {"timeSpend"})
    /\ Track("changeTimeSpend")
    /\ calls' = <<>>
    /\ UNCHANGED <<step, username, token, dates, tickets, isSubmitting, toast, pending, now>>

onChangeDescription(raw) ==
    /\ currentTicket' = [currentTicket EXCEPT !.description = sanitizeDescription(raw)]
    /\ fieldErrors' = Without(fieldErrors, {"description"})
    /\ Track("changeDescription")
    /\ calls' = <<>>
    /\ UNCHANGED <<step, username, token, dates, tickets, isSubmitting, toast, pending, now>>

\* The draft as handleAddTicket sanitizes it.
SanitizedDraft(t) ==
    [id |-> "", typeOfWork |-> t.typeOfWork,
     description |-> sanitizeDescription(t.description),
     timeSpend |-> sanitizeHours(Num(t.timeSpend)),
     ticketId |-> sanitizeTicketId(t.ticketId)]

\* handleAddTicket, had it appended the draft whatever TicketSchema says.
handleAddTicket_AddsOnError ==
    LET sanitized == SanitizedDraft(currentTicket)
    IN  /\ Len(tickets) < MaxTickets
        /\ fieldErrors' = Without(fieldErrors,
               {"ticketId", "description", "timeSpend", "typeOfWork"})
        /\ tickets' = Append(tickets, [sanitized EXCEPT !.id = ToString(now)])
        /\ currentTicket' = DefaultTicket
        /\ Track("addTicket")
        /\ calls' = <<>>
        /\ UNCHANGED <<step, username, token, dates, isSubmitting, toast, pending, now>>

\* handleAddTicket, had it reset the draft in its catch block too.
handleAddTicket_ResetsDraftOnError ==
    LET sanitized == SanitizedDraft(currentTicket)
        issues == TicketSchemaIssues(sanitized)
    IN  IF issues = <<>>
        THEN /\ Len(tickets) < MaxTickets
             /\ fieldErrors' = Without(fieldErrors,
                    {"ticketId", "description", "timeSpend", "typeOfWork"})
             /\ tickets' = Append(tickets, [sanitized EXCEPT !.id = ToString(now)])
             /\ currentTicket' = DefaultTicket
             /\ Track("addTicket")
             /\ calls' = <<>>
             /\ UNCHANGED <<step, username, token, dates, isSubmitting, toast, pending, now>>
        ELSE /\ fieldErrors' = Merged(fieldErrors, zodToFieldErrors(ZodError(issues), NoKey))
             /\ currentTicket' = DefaultTicket
             /\ Track("addTicket")
             /\ calls' = <<>>
             /\ UNCHANGED <<step, username, token, dates, tickets,
                            isSubmitting, toast, pending, now>>

\* handleAddTicket, had it put the new ticket first: [newTicket, ...tickets].
handleAddTicket_Prepends ==
    LET sanitized == SanitizedDraft(currentTicket)
        issues == TicketSchemaIssues(sanitized)
    IN  IF issues = <<>>
        THEN /\ Len(tickets) < MaxTickets
             /\ fieldErrors' = Without(fieldErrors,
                    {"ticketId", "description", "timeSpend", "typeOfWork"})
             /\ tickets' = <<[sanitized EXCEPT !.id = ToString(now)]>> \o tickets
             /\ currentTicket' = DefaultTicket
             /\ Track("addTicket")
             /\ calls' = <<>>
             /\ UNCHANGED <<step, username, token, dates, isSubmitting, toast, pending, now>>
        ELSE /\ fieldErrors' = Merged(fieldErrors, zodToFieldErrors(ZodError(issues), NoKey))
             /\ Track("addTicket")
             /\ calls' = <<>>
             /\ UNCHANGED <<step, username, token, dates, tickets, currentTicket,
                            isSubmitting, toast, pending, now>>

\* handleAddTicket assigns the tickets, the draft and the field errors only;
\* the draft is kept (the catch block returns) or reset.
handleAddTicket ==
    /\ UNCHANGED <<step, username, token, dates, isSubmitting, toast, pending, now>>
    /\ Track("addTicket")
    /\ calls' = <<>>
    /\ currentTicket' \in {currentTicket, DefaultTicket}
    /\ LET sanitized == SanitizedDraft(currentTicket)
           issues == TicketSchemaIssues(sanitized)
       IN  IF issues = <<>>
           THEN /\ Len(tickets) < MaxTickets
                /\ fieldErrors' = Without(fieldErrors,
                       {"ticketId", "description", "timeSpend", "typeOfWork"})
                /\ tickets' = Append(tickets, [sanitized EXCEPT !.id = ToString(now)])
                /\ currentTicket' = DefaultTicket
           ELSE /\ fieldErrors' = Merged(fieldErrors,
                                         zodToFieldErrors(ZodError(issues), NoKey))
                /\ tickets' = tickets
                /\ currentTicket' = currentTicket

\* What a removeTicket(id) is to the scenario.
RemoveOp(id) ==
    IF \E i \in 1..Len(tickets) : tickets[i].id = id
    THEN "removeTicket" ELSE "removeUnknown"

\* handleRemoveTicket, had it dropped the last ticket when no id matches.
handleRemoveTicket_DropsLastOnMiss(id) ==
    /\ UNCHANGED <<step, username, token, dates, currentTicket, isSubmitting,
                   fieldErrors, toast, pending, now>>
    /\ Track(RemoveOp(id))
    /\ calls' = <<>>
    /\ tickets' = IF \E i \in 1..Len(tickets) : tickets[i].id = id
                  THEN SelectSeq(tickets, LAMBDA ticket : ticket.id # id)
                  ELSE SubSeq(tickets, 1, Len(tickets) - 1)

handleRemoveTicket(id) ==
    /\ UNCHANGED <<step, username, token, dates, currentTicket, isSubmitting,
                   fieldErrors, toast, pending, now>>
    /\ Track(RemoveOp(id))
    /\ calls' = <<>>
    /\ tickets' = SelectSeq(tickets, LAMBDA ticket : ticket.id # id)

\* handleNext, had it called setStep(2) in its catch block too.
handleNext_AdvancesOnError ==
    /\ UNCHANGED <<dates, tickets, currentTicket, isSubmitting, toast, pending, now>>
    /\ Track("next")
    /\ calls' = <<>>
    /\ LET safeUser == sanitizeAccount(username)
           safeToken == sanitizeToken(token)
           issues == Step1SchemaIssues([username |-> safeUser, token |-> safeToken])
       IN  IF issues = <<>>
           THEN /\ username' = safeUser
                /\ token' = safeToken
                /\ fieldErrors' = Without(fieldErrors, {"username", "token"})
                /\ step' = 2
           ELSE /\ fieldErrors' = Merged(fieldErrors,
                                         zodToFieldErrors(ZodError(issues), NoKey))
                /\ step' = 2
                /\ UNCHANGED <<username, token>>

\* handleNext, had its catch block dropped the errors that are already shown
\* instead of merging the new ones over them.
handleNext_TogglesErrors ==
    /\ UNCHANGED <<dates, tickets, currentTicket, isSubmitting, toast, pending, now>>
    /\ Track("next")
    /\ calls' = <<>>
    /\ LET safeUser == sanitizeAccount(username)
           safeToken == sanitizeToken(token)
           issues == Step1SchemaIssues([username |-> safeUser, token |-> safeToken])
           more == zodToFieldErrors(ZodError(issues), NoKey)
       IN  IF issues = <<>>
           THEN /\ username' = safeUser
                /\ token' = safeToken
                /\ fieldErrors' = Without(fieldErrors, {"username", "token"})
                /\ step' = 2
           ELSE /\ fieldErrors' = IF DOMAIN more \subseteq DOMAIN fieldErrors
                                  THEN Without(fieldErrors, DOMAIN more)
                                  ELSE Merged(fieldErrors, more)
                /\ UNCHANGED <<step, username, token>>

handleNext ==
    /\ UNCHANGED <<dates, tickets, currentTicket, isSubmitting, toast, pending, now>>
    /\ Track("next")
    /\ calls' = <<>>
    /\ LET safeUser == sanitizeAccount(username)
           safeToken == sanitizeToken(token)
           issues == Step1SchemaIssues([username |-> safeUser, token |-> safeToken])
       IN  IF issues = <<>>
           THEN /\ username' = safeUser
                /\ token' = safeToken
                /\ fieldErrors' = Without(fieldErrors, {"username", "token"})
                /\ step' = 2
           ELSE /\ fieldErrors' = Merged(fieldErrors,
                                         zodToFieldErrors(ZodError(issues), NoKey))
                /\ UNCHANGED <<step, username, token>>

\* The onClick of the Review button, had it called zodToFieldErrors(e)
\* without the default key.
onClickReview_NoDefaultKey ==
    /\ UNCHANGED <<username, token, tickets, currentTicket, isSubmitting, toast, pending, now>>
    /\ Track("review")
    /\ calls' = <<>>
    /\ LET safe == sanitizeDates(dates)
           issues == DatesSchemaIssues(safe)
       IN  /\ dates' = safe
           /\ IF issues = <<>>
              THEN /\ fieldErrors' = Without(fieldErrors, {"dates"})
                   /\ step' = 3
              ELSE /\ fieldErrors' = Merged(fieldErrors,
                                            zodToFieldErrors(ZodError(issues), NoKey))
                   /\ step' = step

\* The onClick of the Review button, had it gone on without DatesSchema.parse.
onClickReview_NoParse ==
    /\ UNCHANGED <<username, token, tickets, currentTicket, isSubmitting, toast, pending, now>>
    /\ Track("review")
    /\ calls' = <<>>
    /\ dates' = sanitizeDates(dates)
    /\ fieldErrors' = Without(fieldErrors, {"dates"})
    /\ step' = 3

\* The onClick of the Review button of the Log Ticket step.
onClickReview ==
    /\ UNCHANGED <<username, token, tickets, currentTicket, isSubmitting, toast, pending, now>>
    /\ Track("review")
    /\ calls' = <<>>
    /\ LET safe == sanitizeDates(dates)
           issues == DatesSchemaIssues(safe)
       IN  /\ dates' = safe
           /\ IF issues = <<>>
              THEN /\ fieldErrors' = Without(fieldErrors, {"dates"})
                   /\ step' = 3
              ELSE /\ fieldErrors' = Merged(fieldErrors,
                                            zodToFieldErrors(ZodError(issues), "dates"))
                   /\ step' = step

\* The argument of submitTimesheet, had the tickets been passed as they are.
ApiData_KeepsIds(payload) ==
    [username |-> payload.username, token |-> payload.token, dates |-> payload.dates,
     tickets |-> payload.tickets]

\* The argument of submitTimesheet: the payload without the tickets' ids.
ApiData(payload) ==
    [username |-> payload.username, token |-> payload.token, dates |-> payload.dates,
     tickets |-> [i \in 1..Len(payload.tickets) |->
                    [typeOfWork |-> payload.tickets[i].typeOfWork,
                     description |-> payload.tickets[i].description,
                     timeSpend |-> payload.tickets[i].timeSpend,
                     ticketId |-> payload.tickets[i].ticketId]]]

\* The payload, had handleSubmit built its tickets in reverse.
SubmitPayload_Reversed ==
    [username |-> sanitizeAccount(username),
     token |-> sanitizeToken(token),
     dates |-> sanitizeDates(dates),
     tickets |-> [i \in 1..Len(tickets) |->
                    LET t == tickets[Len(tickets) + 1 - i]
                    IN  [id |-> t.id,
                         typeOfWork |-> t.typeOfWork,
                         description |-> sanitizeDescription(t.description),
                         timeSpend |-> sanitizeHours(Num(t.timeSpend)),
                         ticketId |-> sanitizeTicketId(t.ticketId)]]]

\* The payload handleSubmit builds from the state it is called in.
SubmitPayload ==
    [username |-> sanitizeAccount(username),
     token |-> sanitizeToken(token),
     dates |-> sanitizeDates(dates),
     tickets |-> [i \in 1..Len(tickets) |->
                    [id |-> tickets[i].id,
                     typeOfWork |-> tickets[i].typeOfWork,
                     description |-> sanitizeDescription(tickets[i].description),
                     timeSpend |-> sanitizeHours(Num(tickets[i].timeSpend)),
                     ticketId |-> sanitizeTicketId(tickets[i].ticketId)]]]

\* handleSubmit, had it not parsed the payload before the call.
handleSubmit_NoParse ==
    /\ Len(pending) < MaxPending
    /\ isSubmitting' = TRUE
    /\ pending' = Append(pending, ApiData(SubmitPayload))
    /\ calls' = <<TRUE>>
    /\ Track("submit")
    /\ UNCHANGED <<step, username, token, dates, tickets, currentTicket,
                   fieldErrors, toast, now>>

\* handleSubmit up to its await: setIsSubmitting(true), then either
\* SubmitPayloadSchema.parse throws, and the catch and finally blocks run at
\* once (setIsSubmitting(false) is the last of the batched updates), or
\* submitTimesheet is called.
handleSubmit ==
    /\ UNCHANGED <<step, username, token, dates, tickets, currentTicket, now>>
    /\ Track("submit")
    /\ \E finally \in {<<>>, <<FALSE>>} :
        /\ calls' = <<TRUE>> \o finally
        /\ LET payload == SubmitPayload
               issues == SubmitPayloadSchemaIssues(payload)
           IN  IF issues = <<>>
               THEN /\ finally = <<>>
                    /\ Len(pending) < MaxPending
                    /\ isSubmitting' = TRUE
                    /\ pending' = Append(pending, ApiData(payload))
                    /\ UNCHANGED <<fieldErrors, toast>>
               ELSE /\ finally = <<FALSE>>
                    /\ fieldErrors' = Merged(fieldErrors,
                                             zodToFieldErrors(ZodError(issues), NoKey))
                    /\ toast' = ZodError(issues).message
                    /\ isSubmitting' = FALSE
                    /\ UNCHANGED pending

Settled(i) == SubSeq(pending, 1, i - 1) \o SubSeq(pending, i + 1, Len(pending))

\* handleSubmit after its await, had it not called setStep(4).
submitResolved_NoSetStep(i) ==
    /\ pending' = SubSeq(pending, 1, i - 1) \o SubSeq(pending, i + 1, Len(pending))
    /\ isSubmitting' = FALSE
    /\ calls' = <<FALSE>>
    /\ Track("resolved")
    /\ UNCHANGED <<step, username, token, dates, tickets, currentTicket, fieldErrors,
                   toast, now>>

\* handleSubmit after its await, when call i resolved.
submitResolved(i) ==
    /\ pending' = Settled(i)
    /\ step' = 4
    /\ isSubmitting' = FALSE
    /\ calls' = <<FALSE>>
    /\ Track("resolved")
    /\ UNCHANGED <<username, token, dates, tickets, currentTicket, fieldErrors,
                   toast, now>>

\* handleSubmit after its await, had it no finally block.
submitRejected_NoFinally(i, message) ==
    LET err == Error(message)
    IN  /\ pending' = Settled(i)
        /\ fieldErrors' = Merged(fieldErrors, zodToFieldErrors(err, NoKey))
        /\ toast' = err.message
        /\ isSubmitting' = isSubmitting
        /\ calls' = <<>>
        /\ Track("rejected")
        /\ UNCHANGED <<step, username, token, dates, tickets, currentTicket, now>>

\* handleSubmit after its await, had its catch block called submitTimesheet
\* again with the same argument.
submitRejected_Retries(i, message) ==
    LET err == Error(message)
    IN  /\ pending' = Append(Settled(i), pending[i])
        /\ fieldErrors' = Merged(fieldErrors, zodToFieldErrors(err, NoKey))
        /\ toast' = err.message
        /\ isSubmitting' = TRUE
        /\ calls' = <<>>
        /\ Track("rejected")
        /\ UNCHANGED <<step, username, token, dates, tickets, currentTicket, now>>

\* handleSubmit after its await, when call i rejected with Error(message).
submitRejected(i, message) ==
    LET err == Error(message)
    IN  /\ pending' = Settled(i)
        /\ fieldErrors' = Merged(fieldErrors, zodToFieldErrors(err, NoKey))
        /\ toast' = err.message
        /\ isSubmitting' = FALSE
        /\ calls' = <<FALSE>>
        /\ Track("rejected")
        /\ UNCHANGED <<step, username, token, dates, tickets, currentTicket, now>>

\* The onClick of the Add more button of the success screen.
onClickAddMore ==
    /\ username' = <<>>
    /\ token' = <<>>
    /\ dates' = <<>>
    /\ tickets' = <<>>
    /\ step' = 1
    /\ Track("addMore")
    /\ calls' = <<>>
    /\ UNCHANGED <<currentTicket, isSubmitting, fieldErrors, toast,
                   pending, now>>

\* The onClick of a Back button, had it cleared the field errors as well.
onClickBack_ClearsErrors(to) ==
    /\ step' = to
    /\ fieldErrors' = NoErrors
    /\ Track("back")
    /\ calls' = <<>>
    /\ UNCHANGED <<username, token, dates, tickets, currentTicket, isSubmitting,
                   toast, pending, now>>

\* The onClick of a Back button, had it cleared the credentials as well.
onClickBack_ClearsCredentials(to) ==
    /\ step' = to
    /\ username' = <<>>
    /\ token' = <<>>
    /\ Track("back")
    /\ calls' = <<>>
    /\ UNCHANGED <<dates, tickets, currentTicket, isSubmitting,
                   fieldErrors, toast, pending, now>>

\* The onClick of a Back button: setStep(to).
onClickBack(to) ==
    /\ step' = to
    /\ Track("back")
    /\ calls' = <<>>
    /\ UNCHANGED <<username, token, dates, tickets, currentTicket, isSubmitting,
                   fieldErrors, toast, pending, now>>

\* The clock advances.
Tick ==
    /\ now < MaxClock
    /\ now' = now + 1
    /\ Track("tick")
    /\ calls' = <<>>
    /\ UNCHANGED <<step, username, token, dates, tickets, currentTicket,
                   isSubmitting, fieldErrors, toast, pending>>

\* ------------------------------------------------- the rendered component

UsernameInput == step = 1 /\ \E raw \in RawAccounts : onChangeUsername(raw)

TokenInput == step = 1 /\ \E raw \in RawTokens : onChangeToken(raw)

SetupForm == step = 1 /\ handleNext

DatesInput == step = 2 /\ \E raw \in RawDates : onChangeDates(raw)

TicketIdInput == step = 2 /\ \E raw \in RawTicketIds : onChangeTicketId(raw)

TypeOfWorkSelect == step = 2 /\ \E v \in SelectedTypes : onChangeTypeOfWork(v)

TimeSpendInput == step = 2 /\ \E raw \in RawHours : onChangeTimeSpend(raw)

DescriptionInput == step = 2 /\ \E raw \in RawDescriptions : onChangeDescription(raw)

AddTicketButton == step = 2 /\ handleAddTicket

\* One button per row of the ticket tables of the Log Ticket and Review steps.
RemoveButton ==
    /\ step \in {2, 3}
    /\ \E i \in 1..Len(tickets) : handleRemoveTicket(tickets[i].id)

LogTicketBackButton == step = 2 /\ onClickBack(1)

\* The Review button, had it been rendered outside {tickets.length > 0 && ...}.
ReviewButton_AlwaysRendered == step = 2 /\ onClickReview

ReviewButton == step = 2 /\ Len(tickets) > 0 /\ onClickReview

ReviewBackButton == step = 3 /\ onClickBack(2)

\* The Submit button, had it been disabled only for an empty ticket list.
SubmitButton_NotDisabledWhileSubmitting ==
    /\ step = 3
    /\ ~(Len(tickets) = 0)
    /\ handleSubmit

SubmitButton ==
    /\ step = 3
    /\ ~(Len(tickets) = 0 \/ isSubmitting)
    /\ handleSubmit

AddMoreButton == step = 4 /\ onClickAddMore

Resolved == \E i \in 1..Len(pending) : submitResolved(i)

Rejected ==
    \E i \in 1..Len(pending) : \E message \in RejectionMessages : submitRejected(i, message)

Next ==
    \/ UsernameInput
    \/ TokenInput
    \/ SetupForm
    \/ DatesInput
    \/ TicketIdInput
    \/ TypeOfWorkSelect
    \/ TimeSpendInput
    \/ DescriptionInput
    \/ AddTicketButton
    \/ RemoveButton
    \/ LogTicketBackButton
    \/ ReviewButton
    \/ ReviewBackButton
    \/ SubmitButton
    \/ AddMoreButton
    \/ Resolved
    \/ Rejected
    \/ Tick

Spec == Init /\ [][Next]_vars

\* ------------------------------------------- the handlers as operations

\* The component's named handlers (handleNext, handleAddTicket,
\* handleRemoveTicket, handleSubmit) called in any state, whatever the JSX
\* renders; the inline handlers of the JSX stay with the elements that carry
\* them.  The caller honours the rule that no operation is invoked while a
\* submit() is pending.
Idle == pending = <<>>

TicketIds == {ToString(n) : n \in 0..MaxClock}

OpUsernameInput == Idle /\ UsernameInput

OpTokenInput == Idle /\ TokenInput

OpNext == Idle /\ handleNext

OpDatesInput == Idle /\ DatesInput

OpTicketIdInput == Idle /\ TicketIdInput

OpTypeOfWorkSelect == Idle /\ TypeOfWorkSelect

OpTimeSpendInput == Idle /\ TimeSpendInput

OpDescriptionInput == Idle /\ DescriptionInput

OpAddTicket == Idle /\ handleAddTicket

OpRemoveTicket == Idle /\ \E id \in TicketIds : handleRemoveTicket(id)

OpLogTicketBack == Idle /\ LogTicketBackButton

OpReview == Idle /\ ReviewButton

OpReviewBack == Idle /\ ReviewBackButton

OpSubmit == Idle /\ handleSubmit

OpAddMore == Idle /\ AddMoreButton

NextOps ==
    \/ OpUsernameInput
    \/ OpTokenInput
    \/ OpNext
    \/ OpDatesInput
    \/ OpTicketIdInput
    \/ OpTypeOfWorkSelect
    \/ OpTimeSpendInput
    \/ OpDescriptionInput
    \/ OpAddTicket
    \/ OpRemoveTicket
    \/ OpLogTicketBack
    \/ OpReview
    \/ OpReviewBack
    \/ OpSubmit
    \/ OpAddMore
    \/ Resolved
    \/ Rejected
    \/ Tick

SpecOps == Init /\ [][NextOps]_vars

\* The boundary settles every call it was given: a call that stays
\* outstanding is resolved or rejected in the end.
Settle == Resolved \/ Rejected

SpecOpsLive == SpecOps /\ WF_vars(Settle)

\* ------------------------------------------- the functions on their own

\* The variables of the form.
FormVars == <<step, username, token, dates, tickets, currentTicket,
              isSubmitting, fieldErrors, toast, pending, now, calls, scen, refused>>

\* What axios.post(url, data) can do: fulfil with a 2xx response, reject with
\* an AxiosError (with a response of another status, or with none when the
\* request never got an answer), or throw something that is no AxiosError.
\* A response body is [hasMessage, message, success]; a response is
\* [status, hasData, data].
NoBody == [hasMessage |-> FALSE, message |-> "", success |-> FALSE]

SuccessBody ==
    [hasMessage |-> TRUE, message |-> "Timesheet submitted successfully", success |-> TRUE]

ErrorBodies ==
    { NoBody,
      [hasMessage |-> TRUE, message |-> "", success |-> FALSE],
      [hasMessage |-> TRUE, message |-> "Missing required fields", success |-> FALSE] }

NoResponse == [status |-> 0, hasData |-> FALSE, data |-> NoBody]

PostOutcomes ==
    { [kind |-> "fulfilled", hasResponse |-> TRUE, thrown |-> "",
       response |-> [status |-> st, hasData |-> TRUE, data |-> SuccessBody]] :
         st \in {200, 201} }
    \cup { [kind |-> "axiosError", hasResponse |-> TRUE, thrown |-> "",
            response |-> [status |-> st, hasData |-> TRUE, data |-> b]] :
              st \in {400, 405, 500}, b \in ErrorBodies }
    \cup { [kind |-> "axiosError", hasResponse |-> TRUE, thrown |-> "",
            response |-> [status |-> 502, hasData |-> FALSE, data |-> NoBody]],
           [kind |-> "axiosError", hasResponse |-> FALSE, thrown |-> "",
            response |-> NoResponse],
           [kind |-> "otherError", hasResponse |-> FALSE, thrown |-> "TypeError",
            response |-> NoResponse] }

GenericFailure == "Error submitting timesheet. Please check your connection and try again."

\* error.response?.data?.message
ResponseMessage(post) ==
    IF post.hasResponse /\ post.response.hasData /\ post.response.data.hasMessage
    THEN post.response.data.message
    ELSE ""

\* submitTimesheet, had its catch block returned a failure object.
submitTimesheet_ReturnsFailure(post) ==
    IF post.kind = "fulfilled"
    THEN [kind |-> "returned", value |-> post.response.data]
    ELSE [kind |-> "returned",
          value |-> [hasMessage |-> TRUE, success |-> FALSE,
                     message |-> IF ResponseMessage(post) # ""
                                 THEN ResponseMessage(post) ELSE GenericFailure]]

\* submitTimesheet(data), told what its axios.post does: what it returns or
\* throws.  `a || b` is b when a is undefined or the empty string.
submitTimesheet(post) ==
    IF post.kind = "fulfilled"
    THEN [kind |-> "returned", value |-> post.response.data]
    ELSE IF post.kind = "axiosError"
    THEN [kind |-> "thrown",
          error |-> Error(IF ResponseMessage(post) # ""
                          THEN ResponseMessage(post) ELSE GenericFailure)]
    ELSE [kind |-> "thrown", error |-> Error(post.thrown)]

\* The requests of the mock endpoint: a method and a body, each field of the
\* body absent, empty or set; dates absent, a string, or an array.
BodyFields == { [has |-> FALSE, value |-> ""], [has |-> TRUE, value |-> ""],
                [has |-> TRUE, value |-> "u1"] }

BodyDates ==
    { [kind |-> "missing", items |-> <<>>], [kind |-> "string", items |-> <<>>] }
    \cup { [kind |-> "array", items |-> it] :
             it \in { <<>>, <<"1/Aug/25">>, <<"1/Aug/25", "2/Aug/25">> } }

Requests ==
    [method : {"POST", "GET", "PUT"}, hasBody : BOOLEAN,
     userId : BodyFields, jiraToken : BodyFields, dates : BodyDates]

\* !data?.f for a string field f
Falsy(req, f) == ~req.hasBody \/ ~f.has \/ f.value = ""

MissingRequired(req) ==
    \/ Falsy(req, req.userId)
    \/ Falsy(req, req.jiraToken)
    \/ ~req.hasBody
    \/ req.dates.kind # "array"
    \/ Len(req.dates.items) = 0

\* handler, had it answered every POST with success.
handler_NoValidation(req) ==
    IF req.method # "POST"
    THEN [status |-> 405, allow |-> <<"POST">>,
          body |-> [message |-> "Method Not Allowed"]]
    ELSE [status |-> 200, allow |-> <<>>,
          body |-> [success |-> TRUE, message |-> "Timesheet submitted successfully",
                    submittedDates |-> req.dates.items]]

\* handler, had it looked at the body before the method.
handler_ValidatesFirst(req) ==
    IF MissingRequired(req)
    THEN [status |-> 400, allow |-> <<>>,
          body |-> [message |-> "Missing required fields"]]
    ELSE IF req.method # "POST"
    THEN [status |-> 405, allow |-> <<"POST">>,
          body |-> [message |-> "Method Not Allowed"]]
    ELSE [status |-> 200, allow |-> <<>>,
          body |-> [success |-> TRUE, message |-> "Timesheet submitted successfully",
                    submittedDates |-> req.dates.items]]

\* The mock endpoint: the response it sends, [status, allow, body], allow the
\* Allow header (<<>> when not set).  Nothing in its try block throws on
\* these requests, so the 500 of its catch block is never sent.
handler(req) ==
    IF req.method # "POST"
    THEN [status |-> 405, allow |-> <<"POST">>,
          body |-> [message |-> "Method Not Allowed"]]
    ELSE IF MissingRequired(req)
    THEN [status |-> 400, allow |-> <<>>,
          body |-> [message |-> "Missing required fields"]]
    ELSE [status |-> 200, allow |-> <<>>,
          body |-> [success |-> TRUE, message |-> "Timesheet submitted successfully",
                    submittedDates |-> req.dates.items]]

\* The hours a user can type: no number, or any number of hundredths from
\* below the range to above it.
WideHours ==
    { NotANumber }
    \cup { Num(v) : v \in (MinHours - MaxRawHours)..(MaxHours + MaxRawHours) }

\* The date texts a user can type: up to MaxPieces of these pieces in a row.
OneDigitDay == <<"1", "/", "A", "u", "g", "/", "2", "5">>

TwoDigitDay == <<"1", "2", "/", "S", "e", "p", "/", "2", "5">>

FullMonth == <<"1", "/", "A", "u", "g", "u", "s", "t", "/", "2", "5">>

DatePieces == { OneDigitDay, TwoDigitDay, FullMonth, <<",">>, <<" ">>, <<"1">> }

RECURSIVE Pieces(_)
Pieces(n) ==
    IF n = 0 THEN { <<>> }
    ELSE LET shorter == Pieces(n - 1)
         IN  shorter \cup { s \o p : s \in shorter, p \in DatePieces }

WideDates == Pieces(MaxPieces)

\* The positions after a match of \d{1,2}\/[A-Za-z]{3}\/\d{2} that starts at i.
TokenEnds(s, i) ==
    { i + n + 7 : n \in { n \in 1..2 :
        /\ i + n + 6 <= Len(s)
        /\ \A k \in i..(i + n - 1) : s[k] \in Digits
        /\ s[i + n] = "/"
        /\ \A k \in (i + n + 1)..(i + n + 3) : s[k] \in Letters
        /\ s[i + n + 4] = "/"
        /\ s[i + n + 5] \in Digits /\ s[i + n + 6] \in Digits } }

\* (,\s*TOKEN)*$ matches from position i.
RECURSIVE TailMatches(_, _)
TailMatches(s, i) ==
    \/ i = Len(s) + 1
    \/ /\ i <= Len(s)
       /\ s[i] = ","
       /\ \E j \in (i + 1)..Len(s) :
             /\ \A k \in (i + 1)..(j - 1) : s[k] \in Spaces
             /\ \E e \in TokenEnds(s, j) : TailMatches(s, e)

\* dateRegex.test(s)
dateRegex(s) == \E e \in TokenEnds(s, 1) : TailMatches(s, e)

\* The hours typed into a draft that is then added: no number, a number
\* below the range, one above it, one off the lattice.
DraftHours ==
    { NotANumber, Num(MinHours - MaxRawHours), Num(MaxHours + MaxRawHours),
      Num(MinHours + QuarterHour + 12) }

\* A text as the string the JSON body carries.
RECURSIVE AsString(_)
AsString(text) == IF text = <<>> THEN "" ELSE Head(text) \o AsString(Tail(text))

\* The field of the JSON body of axios.post(url, data) the handler reads as
\* data?.name: absent when data has no property of that name.
PostedField(data, name) ==
    IF name \in DOMAIN data
    THEN [has |-> TRUE, value |-> AsString(data[name])]
    ELSE [has |-> FALSE, value |-> ""]

\* The request axios.post(url, data) makes of the form's TimesheetData,
\* whose dates property is one string.
PostedRequest(data) ==
    [method |-> "POST", hasBody |-> TRUE,
     userId |-> PostedField(data, "userId"),
     jiraToken |-> PostedField(data, "jiraToken"),
     dates |-> IF "dates" \in DOMAIN data
               THEN [kind |-> "string", items |-> <<>>]
               ELSE [kind |-> "missing", items |-> <<>>]]

\* What axios.post makes of the endpoint's response: it fulfils on a 2xx
\* status and rejects with an AxiosError carrying the response otherwise.
AxiosOutcome(res) ==
    [kind |-> IF res.status \in 200..299 THEN "fulfilled" ELSE "axiosError",
     hasResponse |-> TRUE, thrown |-> "",
     response |-> [status |-> res.status, hasData |-> TRUE,
                   data |-> [hasMessage |-> "message" \in DOMAIN res.body,
                             message |-> res.body.message,
                             success |-> "success" \in DOMAIN res.body]]]

\* One function is taken on its own, once, on one argument.
ToRun(fn) == invoked.fn = fn /\ outcome.kind = "none"

FnSubmitTimesheet ==
    /\ ToRun("submitTimesheet")
    /\ outcome' = submitTimesheet(invoked.arg)
    /\ UNCHANGED <<FormVars, twoStep, invoked>>

FnHandler ==
    /\ ToRun("handler")
    /\ outcome' = [kind |-> "responded", res |-> handler(invoked.arg)]
    /\ UNCHANGED <<FormVars, twoStep, invoked>>

\* The hours input takes a typed value.
FnTimeSpendInput ==
    /\ invoked.fn \in {"onChangeTimeSpend", "handleAddTicket"}
    /\ onChangeTimeSpend(invoked.arg)

\* The rest of the draft is typed, and Add ticket is pressed.
FnTicketIdInput ==
    /\ invoked.fn = "handleAddTicket"
    /\ \E raw \in RawTicketIds : onChangeTicketId(raw)

FnDescriptionInput ==
    /\ invoked.fn = "handleAddTicket"
    /\ \E raw \in RawDescriptions : onChangeDescription(raw)

FnAddTicket ==
    /\ invoked.fn \in {"onChangeTimeSpend", "handleAddTicket"}
    /\ handleAddTicket

\* The dates input takes a typed text; Review and submit() then see what it
\* stored.
FnDatesInput ==
    /\ invoked.fn = "onChangeDates"
    /\ onChangeDates(invoked.arg)

FnReview ==
    /\ invoked.fn = "onChangeDates"
    /\ onClickReview

FnSubmit ==
    /\ invoked.fn = "onChangeDates"
    /\ handleSubmit

\* DatesSchema.safeParse(text): the verdict of isValidDatesList and the issues.
FnDatesSchema ==
    /\ ToRun("DatesSchema")
    /\ outcome' = [kind |-> "parsed",
                   valid |-> isValidDatesList(invoked.arg),
                   issues |-> DatesSchemaIssues(invoked.arg)]
    /\ UNCHANGED <<FormVars, twoStep, invoked>>

InitFn ==
    /\ FormInit
    /\ twoStep = TwoStepInit
    /\ outcome = NoOutcome
    /\ \/ \E post \in PostOutcomes : invoked = [fn |-> "submitTimesheet", arg |-> post]
       \/ \E req \in Requests : invoked = [fn |-> "handler", arg |-> req]
       \/ \E raw \in WideHours : invoked = [fn |-> "onChangeTimeSpend", arg |-> raw]
       \/ \E raw \in DraftHours : invoked = [fn |-> "handleAddTicket", arg |-> raw]
       \/ \E raw \in WideDates : invoked = [fn |-> "onChangeDates", arg |-> raw]
       \/ \E raw \in WideDates : invoked = [fn |-> "DatesSchema", arg |-> raw]

NextFn ==
    \/ FnSubmitTimesheet
    \/ FnHandler
    \/ FnTimeSpendInput
    \/ FnTicketIdInput
    \/ FnDescriptionInput
    \/ FnAddTicket
    \/ FnDatesInput
    \/ FnReview
    \/ FnSubmit
    \/ FnDatesSchema

SpecFn == InitFn /\ [][NextFn]_vars

\* ------------------------------------------------------ the two-step form

\* What the user types and selects in the two-step form.
TwoStepUserIds == { <<" ">>, <<"u">> }

TwoStepTokens == { <<"t">> }

TwoStepDates ==
    { <<"1", "/", "A", "u", "g", "/", "2", "5", ",", " ",
        "2", "/", "A", "u", "g", "/", "2", "5">>,
      <<"1", "/", "A", "u", "g", "u", "s", "t", "/", "2", "5">> }

TwoStepTicketIds == { <<"P">> }

TwoStepDescriptions == { <<"d">> }

TwoStepTypes == { "Done" }

TwoStepHours == { 50 }

\* A handler of the two-step form leaves the four-step form alone; the
\* clock stands still while the two-step form runs, so the tickets of one
\* session get the same Date.now() id.
TwoStepFrame == UNCHANGED <<FormVars, invoked, outcome>>

Form_onChangeUserId(raw) ==
    /\ twoStep' = [twoStep EXCEPT !.userId = raw]
    /\ TwoStepFrame

Form_onChangeJiraToken(raw) ==
    /\ twoStep' = [twoStep EXCEPT !.jiraToken = raw]
    /\ TwoStepFrame

Form_onChangeDates(raw) ==
    /\ twoStep' = [twoStep EXCEPT !.dates = raw]
    /\ TwoStepFrame

Form_onChangeTicketId(raw) ==
    /\ twoStep' = [twoStep EXCEPT !.currentTicket.ticketId = raw]
    /\ TwoStepFrame

Form_onChangeTypeOfWork(v) ==
    /\ twoStep' = [twoStep EXCEPT !.currentTicket.typeOfWork = v]
    /\ TwoStepFrame

Form_onChangeTimeSpend(v) ==
    /\ twoStep' = [twoStep EXCEPT !.currentTicket.timeSpend = v]
    /\ TwoStepFrame

Form_onChangeDescription(raw) ==
    /\ twoStep' = [twoStep EXCEPT !.currentTicket.description = raw]
    /\ TwoStepFrame

Form_handleAddTicket ==
    /\ TwoStepFrame
    /\ IF Trim(twoStep.currentTicket.ticketId) = <<>>
       THEN twoStep' = [twoStep EXCEPT !.error = "Ticket ID is required"]
       ELSE IF Trim(twoStep.currentTicket.description) = <<>>
       THEN twoStep' = [twoStep EXCEPT !.error = "Description is required"]
       ELSE /\ Len(twoStep.tickets) < MaxTwoStepTickets
            /\ twoStep' = [twoStep EXCEPT
                   !.tickets = Append(@, [twoStep.currentTicket EXCEPT !.id = ToString(now)]),
                   !.currentTicket = TwoStepDefaultTicket,
                   !.error = ""]

Form_handleRemoveTicket(id) ==
    /\ twoStep' = [twoStep EXCEPT
           !.tickets = SelectSeq(@, LAMBDA ticket : ticket.id # id)]
    /\ TwoStepFrame

\* The first failing check of handleNext, "" when all pass.
Form_Step1Error ==
    IF Trim(twoStep.userId) = <<>> THEN "User ID is required"
    ELSE IF Trim(twoStep.jiraToken) = <<>> THEN "Jira Token is required"
    ELSE IF Trim(twoStep.dates) = <<>> THEN "Dates are required"
    ELSE IF ~dateRegex(twoStep.dates) THEN "Dates must be in the format"
    ELSE ""

\* handleNext, had it not tested the dates against dateRegex.
Form_handleNext_NoDateCheck ==
    /\ TwoStepFrame
    /\ LET error == IF Form_Step1Error = "Dates must be in the format"
                    THEN "" ELSE Form_Step1Error
       IN  twoStep' = [twoStep EXCEPT
               !.error = error,
               !.step = IF error = "" THEN 2 ELSE @]

Form_handleNext ==
    /\ TwoStepFrame
    /\ twoStep' = [twoStep EXCEPT
           !.error = Form_Step1Error,
           !.step = IF Form_Step1Error = "" THEN 2 ELSE @]

Form_handleBack ==
    /\ twoStep' = [twoStep EXCEPT !.step = 1]
    /\ TwoStepFrame

\* The argument of submitTimesheet.
Form_TimesheetData ==
    [userId |-> twoStep.userId, jiraToken |-> twoStep.jiraToken,
     dates |-> twoStep.dates,
     tickets |-> [i \in 1..Len(twoStep.tickets) |->
                    [typeOfWork |-> twoStep.tickets[i].typeOfWork,
                     description |-> twoStep.tickets[i].description,
                     timeSpend |-> twoStep.tickets[i].timeSpend,
                     ticketId |-> twoStep.tickets[i].ticketId]]]

\* handleSubmit up to its await: with no ticket it throws before the call,
\* and its catch and finally blocks run in the same task.
Form_handleSubmit ==
    /\ TwoStepFrame
    /\ IF Len(twoStep.tickets) = 0
       THEN twoStep' = [twoStep EXCEPT
               !.error = "Please add at least one ticket",
               !.isSubmitting = FALSE]
       ELSE /\ Len(twoStep.pending) < MaxPending
            /\ twoStep' = [twoStep EXCEPT
                   !.error = "",
                   !.isSubmitting = TRUE,
                   !.pending = Append(@, Form_TimesheetData)]

Form_Settled(i) ==
    SubSeq(twoStep.pending, 1, i - 1)
        \o SubSeq(twoStep.pending, i + 1, Len(twoStep.pending))

\* handleSubmit after its await, when call i resolved.
Form_submitResolved(i) ==
    /\ twoStep' = [twoStep EXCEPT
           !.pending = Form_Settled(i),
           !.showDialog = TRUE,
           !.dialogTitle = "Success",
           !.dialogMessage = "Timesheet submitted successfully!",
           !.success = "Timesheet submitted successfully!",
           !.userId = <<>>, !.jiraToken = <<>>, !.dates = <<>>,
           !.tickets = <<>>, !.step = 1,
           !.isSubmitting = FALSE]
    /\ TwoStepFrame

\* handleSubmit after its await, when call i rejected with Error(message).
Form_submitRejected(i, message) ==
    /\ twoStep' = [twoStep EXCEPT
           !.pending = Form_Settled(i),
           !.error = message,
           !.isSubmitting = FALSE]
    /\ TwoStepFrame

\* The elements the component renders: the details tab shows when step = 1,
\* the tickets tab when step = 2.
TwoStepUserIdInput ==
    twoStep.step = 1 /\ \E raw \in TwoStepUserIds : Form_onChangeUserId(raw)

TwoStepJiraTokenInput ==
    twoStep.step = 1 /\ \E raw \in TwoStepTokens : Form_onChangeJiraToken(raw)

TwoStepDatesInput ==
    twoStep.step = 1 /\ \E raw \in TwoStepDates : Form_onChangeDates(raw)

TwoStepDetailsForm == twoStep.step = 1 /\ Form_handleNext

TwoStepDetailsTab ==
    /\ ~(twoStep.step = 2 /\ twoStep.isSubmitting)
    /\ twoStep.step # 1
    /\ Form_handleBack

TwoStepEditDetailsButton == twoStep.step = 2 /\ Form_handleBack

TwoStepTicketIdInput ==
    twoStep.step = 2 /\ \E raw \in TwoStepTicketIds : Form_onChangeTicketId(raw)

TwoStepTypeOfWorkSelect ==
    twoStep.step = 2 /\ \E v \in TwoStepTypes : Form_onChangeTypeOfWork(v)

TwoStepTimeSpendSelect ==
    twoStep.step = 2 /\ \E v \in TwoStepHours : Form_onChangeTimeSpend(v)

TwoStepDescriptionInput ==
    twoStep.step = 2 /\ \E raw \in TwoStepDescriptions : Form_onChangeDescription(raw)

TwoStepAddTicketButton == twoStep.step = 2 /\ Form_handleAddTicket

TwoStepRemoveButton ==
    /\ twoStep.step = 2
    /\ \E i \in 1..Len(twoStep.tickets) : Form_handleRemoveTicket(twoStep.tickets[i].id)

TwoStepSubmitButton ==
    /\ twoStep.step = 2
    /\ Len(twoStep.tickets) > 0
    /\ ~(twoStep.isSubmitting \/ Len(twoStep.tickets) = 0)
    /\ Form_handleSubmit

\* handleSubmit called on the tickets tab with no ticket in the list, which
\* the rendered Submit button does not allow.
TwoStepSubmitWithoutTickets ==
    /\ twoStep.step = 2
    /\ Len(twoStep.tickets) = 0
    /\ ~twoStep.isSubmitting
    /\ Form_handleSubmit

TwoStepCloseDialog ==
    /\ twoStep.showDialog
    /\ twoStep' = [twoStep EXCEPT !.showDialog = FALSE]
    /\ TwoStepFrame

TwoStepResolved == \E i \in 1..Len(twoStep.pending) : Form_submitResolved(i)

TwoStepRejected ==
    \E i \in 1..Len(twoStep.pending) : \E message \in RejectionMessages :
        Form_submitRejected(i, message)

NextTwoStep ==
    \/ TwoStepUserIdInput
    \/ TwoStepJiraTokenInput
    \/ TwoStepDatesInput
    \/ TwoStepDetailsForm
    \/ TwoStepDetailsTab
    \/ TwoStepEditDetailsButton
    \/ TwoStepTicketIdInput
    \/ TwoStepTypeOfWorkSelect
    \/ TwoStepTimeSpendSelect
    \/ TwoStepDescriptionInput
    \/ TwoStepAddTicketButton
    \/ TwoStepRemoveButton
    \/ TwoStepSubmitButton
    \/ TwoStepSubmitWithoutTickets
    \/ TwoStepCloseDialog
    \/ TwoStepResolved
    \/ TwoStepRejected

SpecTwoStep == Init /\ [][NextTwoStep]_vars

\* ------------------------------------------------------------------- claims

\* The tickets as the submission boundary receives them.
StripIds(ts) ==
    [i \in 1..Len(ts) |->
        [typeOfWork |-> ts[i].typeOfWork, description |-> ts[i].description,
         timeSpend |-> ts[i].timeSpend, ticketId |-> ts[i].ticketId]]

\* The aggregate rule of submission, on the session state.
AggregateOk ==
    /\ CredentialsOk
    /\ DatesOk
    /\ Len(tickets) >= 1
    /\ \A i \in 1..Len(tickets) : OffendingFields(tickets[i]) = {}

\* The keys under which a submit() in this state has a violation to report.
AggregateViolations ==
    {k \in {"username"} : ~TextOk(sanitizeAccount(username), MaxUsernameLen)}
        \cup {k \in {"token"} : ~TextOk(sanitizeToken(token), MaxTokenLen)}
        \cup {k \in {"dates"} : ~DatesOk}
        \cup {k \in {"tickets"} :
                \/ Len(tickets) = 0
                \/ \E i \in 1..Len(tickets) : OffendingFields(tickets[i]) # {}}

\* The rules, on an argument of submitTimesheet.
DataOk(d) ==
    /\ TextOk(d.username, MaxUsernameLen)
    /\ TextOk(d.token, MaxTokenLen)
    /\ isValidDatesList(d.dates)
    /\ Len(d.tickets) >= 1
    /\ \A i \in 1..Len(d.tickets) :
        /\ TextOk(d.tickets[i].ticketId, MaxTicketIdLen)
        /\ TextOk(d.tickets[i].description, MaxDescriptionLen)
        /\ d.tickets[i].timeSpend >= MinHours /\ d.tickets[i].timeSpend <= MaxHours
        /\ d.tickets[i].typeOfWork \in TypesOfWork

C2_CallOnlyWhenValid ==
    [][/\ (Len(pending') > Len(pending) =>
              AggregateOk /\ DataOk(pending'[Len(pending')]))
       /\ (OpSubmit /\ ~AggregateOk =>
              /\ pending' = pending
              /\ AggregateViolations # {}
              /\ AggregateViolations \subseteq DOMAIN fieldErrors')]_vars

\* A submit() with no tickets has reported the violation and made no call.
C2_Witness == "tickets" \in DOMAIN fieldErrors /\ Len(tickets) = 0 /\ pending = <<>>

\* C3, as claimed: when a call is rejected, the credentials, the dates and
\* the tickets (same entries, same order) are after the handling of the
\* rejection those submit() was called with.
C3_RejectionKeepsEnteredData ==
    [][\A i \in 1..Len(pending) : \A message \in RejectionMessages :
          submitRejected(i, message) =>
              /\ username' = pending[i].username
              /\ token' = pending[i].token
              /\ dates' = pending[i].dates
              /\ StripIds(tickets') = pending[i].tickets]_vars

\* C4, as claimed: after a rejection is handled the step is Review and
\* isSubmitting is false.
C4_RejectionStaysOnReview ==
    [][Rejected => step' = 3 /\ isSubmitting' = FALSE]_vars

\* C5: the end-to-end scenario from the defaults passes through Log Ticket
\* with one ticket and through Review, has one call outstanding after Submit
\* and ends on Success with isSubmitting false.
C5_EndToEnd ==
    /\ (scen = 1 => step = 2 /\ Len(tickets) = 0)
    /\ (scen = 2 => step = 2 /\ Len(tickets) = 1)
    /\ (scen = 3 => step = 3 /\ Len(tickets) = 1)
    /\ (scen = 4 => step = 3 /\ isSubmitting /\ Len(pending) = 1)
    /\ (scen = 5 => step = 4 /\ ~isSubmitting /\ pending = <<>>)

\* The scenario has run to its end.
C5_Witness == scen = 5

\* C6, as claimed: while isSubmitting is true, only the outcome of the call
\* changes the step, the credentials, the dates, the tickets or the draft.
C6_NothingRunsWhileSubmitting ==
    [][(isSubmitting /\ ~(Resolved \/ Rejected)) =>
          UNCHANGED <<step, username, token, dates, tickets, currentTicket>>]_vars

\* C7, as claimed: the step changes only along Setup -> LogTicket,
\* LogTicket -> Setup, LogTicket -> Review, Review -> LogTicket,
\* Review -> Success and Success -> Setup.
C7_StepTransitions ==
    [][step' # step =>
          <<step, step'>> \in {<<1, 2>>, <<2, 1>>, <<2, 3>>, <<3, 2>>, <<3, 4>>, <<4, 1>>}]_vars

\* C8, as claimed: reset leaves every field of the session at its default.
C8_ResetToDefaults ==
    [][AddMoreButton =>
          /\ step' = 1
          /\ username' = <<>> /\ token' = <<>> /\ dates' = <<>>
          /\ tickets' = <<>>
          /\ currentTicket' = DefaultTicket
          /\ fieldErrors' = NoErrors
          /\ isSubmitting' = FALSE]_vars

\* C9: Add ticket with a draft that breaks a field rule leaves the tickets and
\* the draft as they were and leaves an error under each offending field.
C9_AddInvalidDraft ==
    [][(AddTicketButton /\ ~DraftOk) =>
          /\ tickets' = tickets
          /\ currentTicket' = currentTicket
          /\ OffendingFields(currentTicket) \subseteq DOMAIN fieldErrors']_vars

\* An Add ticket with an empty ticket id has been refused.
C9_Witness ==
    /\ "ticketId" \in DOMAIN fieldErrors
    /\ currentTicket.ticketId = <<>>
    /\ currentTicket.description # <<>>

\* C10: Add ticket with a valid draft appends exactly one entry, the sanitized
\* draft, after the earlier entries, which keep their order, and resets the
\* draft to the defaults.
C10_AddValidDraft ==
    [][(AddTicketButton /\ DraftOk) =>
          /\ Len(tickets') = Len(tickets) + 1
          /\ SubSeq(tickets', 1, Len(tickets)) = tickets
          /\ StripIds(<<tickets'[Len(tickets')]>>) =
                <<[typeOfWork |-> currentTicket.typeOfWork,
                   description |-> sanitizeDescription(currentTicket.description),
                   timeSpend |-> sanitizeHours(Num(currentTicket.timeSpend)),
                   ticketId |-> sanitizeTicketId(currentTicket.ticketId)]>>
          /\ currentTicket' = DefaultTicket]_vars

\* Two tickets that differ have been added, and the draft is back at defaults.
C10_Witness ==
    /\ Len(tickets) = 2
    /\ tickets[1].typeOfWork # tickets[2].typeOfWork
    /\ currentTicket = DefaultTicket

\* The localIds of the entries of ts.
Ids(ts) == {ts[i].id : i \in 1..Len(ts)}

\* ts without its i-th entry.
RemoveAt(ts, i) == SubSeq(ts, 1, i - 1) \o SubSeq(ts, i + 1, Len(ts))

\* a is b with some entries deleted: the entries of a are entries of b, in
\* the order they have in b.
RECURSIVE IsSubSeq(_, _)
IsSubSeq(a, b) ==
    IF a = <<>> THEN TRUE
    ELSE IF b = <<>> THEN FALSE
    ELSE IF Head(a) = Head(b) /\ IsSubSeq(Tail(a), Tail(b)) THEN TRUE
    ELSE IsSubSeq(a, Tail(b))

\* The payload ticket fields.
PayloadTicketFields == {"typeOfWork", "description", "timeSpend", "ticketId"}

\* The credential fields that break a rule once sanitized.
CredentialViolations ==
    {k \in {"username"} : ~TextOk(sanitizeAccount(username), MaxUsernameLen)}
        \cup {k \in {"token"} : ~TextOk(sanitizeToken(token), MaxTokenLen)}

\* C11: removeTicket with an id that no entry of tickets has leaves the
\* tickets, the field errors and the step as they were.
C11_RemoveUnknownId ==
    [][\A id \in TicketIds :
          (id \notin Ids(tickets) /\ Idle /\ handleRemoveTicket(id)) =>
              /\ tickets' = tickets
              /\ fieldErrors' = fieldErrors
              /\ step' = step]_vars

\* A removeTicket with an id that matches no entry has just interrupted the
\* scenario, with a ticket in the list.
C11_Witness == scen = -2 /\ Len(tickets) = 1

\* C12, as claimed: removeTicket with the localId of an entry removes exactly
\* that one entry; the others stay, in their order.
C12_RemoveExactlyOne ==
    [][\A id \in Ids(tickets) :
          handleRemoveTicket(id) =>
              /\ Len(tickets') = Len(tickets) - 1
              /\ \E i \in 1..Len(tickets) :
                    tickets[i].id = id /\ tickets' = RemoveAt(tickets, i)]_vars

\* C13, as claimed: the localIds of the entries of tickets are pairwise
\* distinct.
C13_FreshLocalIds ==
    \A i, j \in 1..Len(tickets) : i # j => tickets[i].id # tickets[j].id

\* C14: the tickets handed to submitTimesheet are the entries of tickets when
\* submit() is called, in their order, and tickets changes only by an entry
\* appended at its end or by entries deleted, so its order is the order of
\* insertion.
C14_PayloadKeepsInsertionOrder ==
    [][/\ (Len(pending') > Len(pending) =>
              pending'[Len(pending')].tickets = StripIds(tickets))
       /\ (tickets' # tickets =>
              \/ IsSubSeq(tickets', tickets)
              \/ /\ Len(tickets') = Len(tickets) + 1
                 /\ SubSeq(tickets', 1, Len(tickets)) = tickets)]_vars

\* A call is outstanding whose two tickets differ.
C14_Witness ==
    /\ Len(pending) = 1
    /\ Len(pending[1].tickets) = 2
    /\ pending[1].tickets[1].typeOfWork # pending[1].tickets[2].typeOfWork

\* C15: no ticket of an argument of submitTimesheet carries an id; each has
\* exactly the fields typeOfWork, description, timeSpend and ticketId.
C15_NoLocalIdInPayload ==
    \A i \in 1..Len(pending) : \A j \in 1..Len(pending[i].tickets) :
        DOMAIN pending[i].tickets[j] = PayloadTicketFields

\* A call is outstanding for tickets that all carry a localId in the list.
C15_Witness ==
    /\ pending # <<>>
    /\ Len(tickets) = Len(pending[1].tickets)
    /\ \A j \in 1..Len(tickets) : tickets[j].id # ""

\* C16: Next on the Setup step with a credential that breaks a rule once
\* sanitized stays on Setup and leaves an error under each offending field;
\* with both valid it stores the sanitized values and moves to Log Ticket.
C16_AdvanceFromSetup ==
    [][SetupForm =>
          IF CredentialsOk
          THEN /\ step' = 2
               /\ username' = sanitizeAccount(username)
               /\ token' = sanitizeToken(token)
          ELSE /\ step' = 1
               /\ CredentialViolations # {}
               /\ CredentialViolations \subseteq DOMAIN fieldErrors']_vars

\* A Next with an account and no token has just been refused.
C16_Witness ==
    /\ refused
    /\ step = 1
    /\ username # <<>>
    /\ DOMAIN fieldErrors = {"token"}

\* C17: a Next right after a refused Next, on the same credentials, changes
\* neither the step nor the field errors, nor the credentials.
C17_NextIdempotent ==
    [][(refused /\ SetupForm) =>
          /\ step' = step
          /\ fieldErrors' = fieldErrors
          /\ username' = username
          /\ token' = token
          /\ refused']_vars

\* A Next with neither account nor token has just been refused.
C17_Witness ==
    /\ refused
    /\ step = 1
    /\ {"username", "token"} \subseteq DOMAIN fieldErrors

\* C18: Review stores the sanitized date list; with a valid list it moves to
\* Review and leaves no dates error, with an empty or malformed one it stays
\* on Log Ticket and leaves a dates error.
C18_AdvanceToReview ==
    [][ReviewButton =>
          /\ dates' = sanitizeDates(dates)
          /\ IF DatesOk
             THEN step' = 3 /\ "dates" \notin DOMAIN fieldErrors'
             ELSE step' = 2 /\ "dates" \in DOMAIN fieldErrors']_vars

\* A Review with a malformed date list has been refused.
C18_Witness ==
    /\ step = 2
    /\ Len(tickets) > 0
    /\ dates # <<>>
    /\ "dates" \in DOMAIN fieldErrors

\* C19, as claimed: a toast is raised only when a call of submitTimesheet is
\* rejected; submit(), addTicket, advanceFromSetup and advanceToReview raise
\* none.
C19_ToastOnlyOnBoundaryFailure ==
    [][/\ (toast' # toast => Rejected)
       /\ ((OpSubmit \/ OpAddTicket \/ OpNext \/ OpReview) => toast' = toast)]_vars

\* C20, as claimed: an operation calls setIsSubmitting(true) only in a state
\* whose aggregate passes validation.
C20_SubmittingOnlyAfterValidation ==
    [][(\E k \in 1..Len(calls') : calls'[k] = TRUE) => AggregateOk]_vars

\* C21: one validation pass reports every violation: Add ticket with a draft
\* whose ticket id and description are both empty leaves an error under
\* ticketId and under description, and Next with neither account nor token
\* leaves an error under username and under token.
C21_AllViolationsReported ==
    [][/\ (currentTicket.ticketId = <<>> /\ currentTicket.description = <<>>
           /\ AddTicketButton) =>
              {"ticketId", "description"} \subseteq DOMAIN fieldErrors'
       /\ (username = <<>> /\ token = <<>> /\ SetupForm) =>
              {"username", "token"} \subseteq DOMAIN fieldErrors']_vars

\* An Add ticket with an empty draft has left both errors.
C21_Witness ==
    /\ step = 2
    /\ currentTicket.ticketId = <<>> /\ currentTicket.description = <<>>
    /\ {"ticketId", "description"} \subseteq DOMAIN fieldErrors

C23_CredentialsChangeOnSetupOnly ==
    [][(username' # username \/ token' # token) =>
          (step = 1 \/ AddMoreButton)]_vars

\* The Success step is reached with the credentials entered on Setup.
C23_Witness == step = 4 /\ username # <<>> /\ token # <<>>

\* C30: a submit() whose aggregate is valid makes exactly one call of
\* submitTimesheet, nothing else makes one, and the handling of a rejection
\* only takes the rejected call away.
C30_ExactlyOneCall ==
    [][/\ Len(pending') <= Len(pending) + 1
       /\ (Len(pending') > Len(pending) => SubmitButton)
       /\ (SubmitButton => Len(pending') = Len(pending) + 1)
       /\ (Rejected => Len(pending') = Len(pending) - 1)]_vars

\* A call was rejected and no other call is outstanding.
C30_Witness ==
    /\ toast = "Network error"
    /\ pending = <<>>
    /\ ~isSubmitting
    /\ step = 3
    /\ Len(tickets) > 0

\* C24: submitTimesheet never returns a failure: when its request fails
\* (no answer, or an answer outside 2xx) it rejects with an Error whose
\* message is the server's message when the answer carries a non-empty one
\* and the generic connectivity message otherwise, and when the request
\* succeeds it returns the response body.
C24_FailureIsAlwaysThrown ==
    (invoked.fn = "submitTimesheet" /\ outcome.kind # "none") =>
        LET post == invoked.arg
        IN  /\ post.kind = "fulfilled" =>
                  outcome.kind = "returned" /\ outcome.value = post.response.data
            /\ post.kind # "fulfilled" => outcome.kind = "thrown"
            /\ post.kind = "axiosError" =>
                  outcome.error.message =
                      IF post.hasResponse /\ post.response.data.message # ""
                      THEN post.response.data.message
                      ELSE GenericFailure

\* A 400 answer with a message has been turned into a thrown Error.
C24_Witness ==
    /\ invoked.fn = "submitTimesheet"
    /\ outcome.kind = "thrown"
    /\ invoked.arg.response.status = 400
    /\ outcome.error.message = "Missing required fields"

\* C25: the mock endpoint decides in this order: a method other than POST
\* gets 405 with Allow: POST; otherwise a missing or empty identity or token,
\* or dates that are not a non-empty array, get 400 with a message; otherwise
\* 200 with success true and the submitted dates equal to the input dates.
C25_EndpointOrder ==
    (invoked.fn = "handler" /\ outcome.kind # "none") =>
        LET req == invoked.arg
            res == outcome.res
            ok(f) == req.hasBody /\ f.has /\ f.value # ""
        IN  IF req.method # "POST"
            THEN res.status = 405 /\ res.allow = <<"POST">>
            ELSE IF ~ok(req.userId) \/ ~ok(req.jiraToken)
                    \/ ~(req.hasBody /\ req.dates.kind = "array" /\ req.dates.items # <<>>)
            THEN res.status = 400 /\ res.body.message # ""
            ELSE /\ res.status = 200
                 /\ res.body.success
                 /\ res.body.submittedDates = req.dates.items

\* A POST without a token has been answered with 400.
C25_Witness ==
    /\ invoked.fn = "handler"
    /\ outcome.kind = "responded"
    /\ invoked.arg.method = "POST"
    /\ invoked.arg.userId.value = "u1" /\ ~invoked.arg.jiraToken.has
    /\ outcome.res.status = 400

\* C26: whatever is typed into the hours input, the stored hours are on the
\* quarter-hour lattice from 0.25 to 8: a number below 0.25 gives 0.25, a
\* number above 8 gives 8, and a text that is no number gives 0.25.
C26_HoursOnLattice ==
    [][FnTimeSpendInput =>
          LET raw == invoked.arg
              h   == currentTicket'.timeSpend
          IN  /\ h \in { k * QuarterHour : k \in 1..(MaxHours \div QuarterHour) }
              /\ (raw.num /\ raw.val < MinHours) => h = MinHours
              /\ (raw.num /\ raw.val > MaxHours) => h = MaxHours
              /\ ~raw.num => h = MinHours]_vars

\* A typed value above 8 hours has been stored as 8 hours.
C26_Witness ==
    /\ invoked.fn = "onChangeTimeSpend"
    /\ invoked.arg.num /\ invoked.arg.val > MaxHours
    /\ currentTicket.timeSpend = MaxHours

\* C27: the dates the input stores are a fixed point of sanitizeDates, so
\* the sanitizeDates of Review leaves the stored dates as they are and
\* submit() sends the stored dates as they are.
C27_SanitizeDatesIdempotent ==
    [][/\ FnDatesInput => sanitizeDates(dates') = dates'
       /\ FnReview => dates' = dates
       /\ FnSubmit => SubmitPayload.dates = dates /\ dates' = dates]_vars

\* A typed text that sanitizing changed has gone through Review.
C27_Witness ==
    /\ invoked.fn = "onChangeDates"
    /\ dates # <<>>
    /\ dates # invoked.arg
    /\ step = 3

\* C28: isValidDatesList(s), and with it DatesSchema, accepts exactly the
\* non-empty texts made of d{1,2}/LLL/dd tokens separated by a comma and
\* optional whitespace after it: a single token is accepted, the empty text
\* and a full month name are rejected.
C28_DateListGrammar ==
    (invoked.fn = "DatesSchema" /\ outcome.kind # "none") =>
        LET s == invoked.arg
        IN  /\ outcome.valid <=> dateRegex(s)
            /\ (outcome.issues = <<>>) <=> dateRegex(s)
            /\ s = <<>> => ~outcome.valid
            /\ s \in {OneDigitDay, TwoDigitDay} => outcome.valid
            /\ s = FullMonth => ~outcome.valid

\* A list of two tokens with whitespace after the comma has been accepted.
C28_Witness ==
    /\ invoked.fn = "DatesSchema"
    /\ outcome.kind = "parsed"
    /\ invoked.arg = OneDigitDay \o <<",", " ">> \o TwoDigitDay
    /\ outcome.valid /\ outcome.issues = <<>>

\* C29: every submit() clears isSubmitting in the end, whether its payload
\* failed validation, its call resolved or its call was rejected, as long as
\* the boundary settles every call.
C29_SubmittingEventuallyCleared ==
    (isSubmitting \/ (calls # <<>> /\ calls[1])) ~> ~isSubmitting

\* A rejected call has been handled and isSubmitting is false again.
C29_Witness ==
    /\ calls = <<FALSE>>
    /\ toast # ""
    /\ ~isSubmitting
    /\ pending = <<>>

\* C31: every entry of tickets satisfies the ticket field rules: ticket id
\* and description non-empty and within their length bounds, timeSpend
\* within [0.25, 8], typeOfWork one of the declared values.
C31_TicketsSatisfyRules ==
    \A i \in 1..Len(tickets) :
        /\ Len(tickets[i].ticketId) \in 1..MaxTicketIdLen
        /\ Len(tickets[i].description) \in 1..MaxDescriptionLen
        /\ tickets[i].timeSpend \in MinHours..MaxHours
        /\ tickets[i].typeOfWork \in TypesOfWork

\* The list is full, of tickets of two types of work.
C31_Witness ==
    /\ Len(tickets) = MaxTickets
    /\ {tickets[i].typeOfWork : i \in 1..Len(tickets)} = {"Create", "Review"}

\* C32, as claimed: on the Review step the tickets list is never empty.
C32_ReviewHasTickets == step = 3 => Len(tickets) > 0

\* C32, amended: the Review step is entered only with a ticket in the list,
\* and on the Review step only a remove button empties the list.
C32_ReviewEnteredWithTickets ==
    [][/\ (step # 3 /\ step' = 3) => Len(tickets') > 0
       /\ (step = 3 /\ tickets # <<>> /\ tickets' = <<>>) => RemoveButton]_vars

\* The last ticket has been removed on the Review step.
C32_Witness == step = 3 /\ tickets = <<>> /\ pending = <<>> /\ ~isSubmitting

\* C33: on the Review step the stored dates are a valid date list, and on
\* the Log Ticket and Review steps the stored account and token are not
\* empty.
C33_LaterStepsHoldValidData ==
    /\ step = 3 => isValidDatesList(dates)
    /\ step \in {2, 3} => username # <<>> /\ token # <<>>

\* The Review step is occupied, with valid dates and credentials.
C33_Witness ==
    /\ step = 3
    /\ dates # <<>>
    /\ Len(tickets) > 0
    /\ "dates" \notin DOMAIN fieldErrors
    /\ username # <<>> /\ token # <<>>

\* C34: a Back button changes the step only: credentials, dates, tickets,
\* draft, field errors and isSubmitting stay as they are.
C34_BackChangesStepOnly ==
    [][(LogTicketBackButton \/ ReviewBackButton) =>
          /\ step' = step - 1
          /\ UNCHANGED <<username, token, dates, tickets, currentTicket,
                         fieldErrors, isSubmitting>>]_vars

\* Back on Setup, with the tickets and a field error still there.
C34_Witness ==
    /\ step = 1
    /\ Len(tickets) > 0
    /\ fieldErrors # NoErrors
    /\ username # <<>>

\* C35: Add ticket never leaves an error under timeSpend, whatever was typed
\* into the hours input.
C35_NoTimeSpendError ==
    [][FnAddTicket => "timeSpend" \notin DOMAIN fieldErrors']_vars

\* A draft with hours typed above the range has been added with 8 hours.
C35_Witness ==
    /\ invoked.fn = "handleAddTicket"
    /\ invoked.arg.num /\ invoked.arg.val > MaxHours
    /\ Len(tickets) > 0
    /\ tickets[1].timeSpend = MaxHours
    /\ "timeSpend" \notin DOMAIN fieldErrors

\* C36: every payload submit() hands to the boundary carries username, token
\* and dates as one string, and the mock endpoint answers it with 400
\* 'Missing required fields', which submitTimesheet throws: a call routed to
\* the mock endpoint is rejected, never resolved.
C36_MockEndpointRefusesFormPayload ==
    \A i \in 1..Len(pending) :
        LET res == handler(PostedRequest(pending[i]))
            out == submitTimesheet(AxiosOutcome(res))
        IN  /\ res.status = 400
            /\ res.body.message = "Missing required fields"
            /\ out.kind = "thrown"
            /\ out.error.message = "Missing required fields"

\* A payload with username and token, and no userId, is with the boundary.
C36_Witness ==
    /\ Len(pending) = 1
    /\ {"username", "token", "dates", "tickets"} \subseteq DOMAIN pending[1]
    /\ "userId" \notin DOMAIN pending[1]
    /\ handler(PostedRequest(pending[1])).status = 400

\* C37: in the two-step form submitTimesheet is called only with a ticket in
\* the list and with a user id, a token and dates that pass the checks of
\* the first step (not blank, dates matching the date-list pattern), and the
\* call carries them; a submit with no ticket sets the error 'Please add at
\* least one ticket', makes no call and ends with isSubmitting false.
C37_TwoStepCallOnlyWhenValid ==
    [][/\ Len(twoStep'.pending) > Len(twoStep.pending) =>
             LET data == twoStep'.pending[Len(twoStep'.pending)]
             IN  /\ Len(twoStep.tickets) > 0
                 /\ Len(data.tickets) = Len(twoStep.tickets)
                 /\ data.userId = twoStep.userId /\ Trim(data.userId) # <<>>
                 /\ data.jiraToken = twoStep.jiraToken /\ Trim(data.jiraToken) # <<>>
                 /\ data.dates = twoStep.dates /\ Trim(data.dates) # <<>>
                 /\ dateRegex(data.dates)
       /\ TwoStepSubmitWithoutTickets =>
             /\ twoStep'.error = "Please add at least one ticket"
             /\ twoStep'.pending = twoStep.pending
             /\ ~twoStep'.isSubmitting]_vars

\* A submit with no ticket has been refused.
C37_Witness ==
    /\ twoStep.step = 2
    /\ twoStep.error = "Please add at least one ticket"
    /\ twoStep.tickets = <<>>
    /\ twoStep.pending = <<>>
    /\ ~twoStep.isSubmitting

=============================================================================
